---- MODULE Spec2Model ----
(***************************************************************************)
(* The in-memory job scheduler of whatsapp-scheduler: the `scheduled` map, *)
(* the one-shot timers and cron tasks it owns, the fire callbacks and the  *)
(* request handlers that call scheduleOnce, scheduleCron and               *)
(* cancelScheduledJob.                                                     *)
(*                                                                         *)
(* The repository holds two builds of the service: the Express build       *)
(* (src/src/services/scheduler.ts behind src/src/routes/api.ts) and the    *)
(* Remix build (src/app/.server/scheduler.server.ts behind                 *)
(* src/app/.server/api.server.ts and the page action of                    *)
(* src/app/routes/_index.tsx).  `build` says which one is running.         *)
(***************************************************************************)
EXTENDS Integers, Sequences, FiniteSets, TLC

VARIABLES
    build,      \* "express" or "remix": which of the two builds runs
    now,        \* Date.now(), in milliseconds
    scheduled,  \* the Map `scheduled`, as the sequence of its values in insertion order
    tasks,      \* every timer (setTimeout) and cron task (nodeCron.schedule) created so far;
                \* a Timeout / ScheduledTask handle is an index of this sequence
    sock,       \* the module variable `sock` of the WhatsApp service: 0 for null,
                \* otherwise an index of sockets
    sockets,    \* every socket makeWASocket has created so far
    inits,      \* the calls of initializeWhatsApp that have not yet reached makeWASocket
    contacts    \* the rows of the table `contacts`

\* The state of the WhatsApp service.
wa == <<sock, sockets, inits>>

vars == <<build, now, scheduled, tasks, sock, sockets, inits, contacts>>

---------------------------------------------------------------------------
(* Bounds of the model *)

\* The clock reading of the initial state.
ClockStart == 9
\* The number of milliseconds the clock advances over a behaviour.
MaxTicks == 2
\* The number of timers and cron tasks created over a behaviour.
MaxJobs == 2
\* The number of sockets created over a behaviour.
MaxSockets == 3
\* The number of rows of the table of contacts.
MaxContacts == 2
\* The length of a cron minute, in clock ticks.
TicksPerMinute == 1

EndOfTime == ClockStart + MaxTicks

\* setTimeout keeps a delay only up to 2^31 - 1 ms and a Date holds at most
\* 8.64e15 ms; the clock of the model covers MaxTicks ticks, so both limits are
\* placed beyond everything the clock reaches, in the same order.
TIMEOUT_MAX == MaxTicks + 1
MAX_TIME_VALUE == EndOfTime + TIMEOUT_MAX + 1

---------------------------------------------------------------------------
(* Values *)

\* The JavaScript value `undefined` of a request field that is left out.
Undefined == "<undefined>"
\* null / Some(x): a nullable field of a job summary.
Null == <<>>
Some(x) == <<x>>

Recipients == {"", "1555000111"}
Bodies == {Undefined, "hello"}
\* Cron patterns of a request.  An absent pattern and an empty one are both "".
Patterns == {"", "* * * * *", "not a cron"}
Modes == {"once", "cron"}
\* Timestamps of a request at clock reading t: 0 (also standing for an absent
\* timestamp, falsy alike), the present, the near future, and the two ends of
\* the Date range.
Timestamps(t) == {0, t, t + 1, MAX_TIME_VALUE, MAX_TIME_VALUE + 1}

\* !x of JavaScript, on a string field.
Falsy(x) == x \in {Undefined, ""}

\* Date.now().toString() is ToString(now), of the TLC module: the decimal
\* digits of the number, as a string.

\* The ids a cancel request may carry: every id the clock can produce, and one
\* that is never issued.
JobIds == {ToString(n) : n \in ClockStart..EndOfTime} \cup {"nope"}

\* new Date(t).toISOString() throws a RangeError outside the Date range.
IsValidTime(t) == t <= MAX_TIME_VALUE /\ t >= -MAX_TIME_VALUE

\* new Date(t).toISOString(): the instant written out in calendar fields, down
\* to the millisecond.  The fields above the second are kept as one number.
toISOString(t) == [seconds |-> t \div 1000, millis |-> t % 1000]

\* Date.parse of such a string.
DateParse(iso) == iso.seconds * 1000 + iso.millis

\* nodeCron.schedule validates the pattern and throws on a malformed one.
validate(cron) == cron \in {"* * * * *", "0 9 * * *"}

\* Whether a pattern matches minute m (m counted from the epoch, 1440 a day).
Matches(cron, m) ==
    CASE cron = "* * * * *" -> TRUE
      [] cron = "0 9 * * *" -> m % 1440 = 540
      [] OTHER -> FALSE

---------------------------------------------------------------------------
(* The Map `scheduled` *)

MapHas(m, id) == \E i \in 1..Len(m) : m[i].id = id

MapGet(m, id) == m[CHOOSE i \in 1..Len(m) : m[i].id = id]

\* A set that puts the key in front of the others.
MapSetInFront(m, id, v) == <<v>> \o SelectSeq(m, LAMBDA e : e.id # id)

\* A set that keeps the value of a key that is present.
MapSetKeepsFirst(m, id, v) == IF \E i \in 1..Len(m) : m[i].id = id THEN m ELSE Append(m, v)

\* Map.prototype.set: a present key keeps its place and takes the new value.
MapSet(m, id, v) ==
    IF MapHas(m, id)
    THEN [i \in 1..Len(m) |-> IF m[i].id = id THEN v ELSE m[i]]
    ELSE Append(m, v)

\* Map.prototype.delete
MapDelete(m, id) == SelectSeq(m, LAMBDA e : e.id # id)

---------------------------------------------------------------------------
(* Timers and cron tasks *)

\* setTimeout(callback, delay): a delay above 2^31 - 1 ms is replaced by 1 ms.
setTimeoutDelay(delay) == IF delay > TIMEOUT_MAX THEN 1 ELSE delay

\* A timer whose callback is run once at the moment the timer is armed.
OnceTimerSendsFirst(to, text, id, delay) ==
    [type |-> "once", to |-> to, text |-> text, id |-> id,
     due |-> now + setTimeoutDelay(delay), state |-> "pending",
     inflight |-> 1, sent |-> <<[to |-> to, text |-> text]>>, outcomes |-> <<>>,
     stored |-> FALSE, canceled |-> FALSE]

\* The timer scheduleOnce arms: the callback's closure (to, text, id) and the
\* instant the timer is due.  inflight counts the sends started and not yet
\* settled.  Four fields record the history of the timer and are read by no
\* operation: sent and outcomes, every sendMessage call of the callback and
\* how each one settled; stored, that the job's entry was put in the map;
\* canceled, that cancelScheduledJob stopped it.
OnceTimer(to, text, id, delay) ==
    [type |-> "once", to |-> to, text |-> text, id |-> id,
     due |-> now + setTimeoutDelay(delay), state |-> "pending",
     inflight |-> 0, sent |-> <<>>, outcomes |-> <<>>,
     stored |-> FALSE, canceled |-> FALSE]

\* The task nodeCron.schedule creates and starts, with the callback's closure
\* (to, text).  A task created within a minute first fires at a later one.
\* id, the id its job is given, is a history field like the four above.
CronTask(to, text, cron, id) ==
    [type |-> "cron", to |-> to, text |-> text, cron |-> cron, id |-> id,
     lastFire |-> now, state |-> "running",
     inflight |-> 0, sent |-> <<>>, outcomes |-> <<>>,
     stored |-> TRUE, canceled |-> FALSE]

\* The arguments a fire callback passes to sendMessage.
SendArgs(t) == [to |-> t.to, text |-> t.text]

\* A timer that stays armed after it has fired.
TimerFiredStaysPending(t) ==
    [t EXCEPT !.inflight = @ + 1, !.sent = Append(@, SendArgs(t))]

\* A timer that fires is consumed, and its callback starts one send.
TimerFired(t) ==
    [t EXCEPT !.state = "fired", !.inflight = @ + 1, !.sent = Append(@, SendArgs(t))]

\* A cron task that fires stays running, and its callback starts one send.
CronFired(t) ==
    [t EXCEPT !.lastFire = now, !.inflight = @ + 1, !.sent = Append(@, SendArgs(t))]

\* A clearTimeout that leaves the timer armed.
clearTimeoutLeavesArmed(t) == [t EXCEPT !.canceled = TRUE]

\* clearTimeout: a pending timer never fires; a timer that has fired is left as it is.
clearTimeout(t) ==
    [t EXCEPT !.state = IF @ = "pending" THEN "cleared" ELSE @, !.canceled = TRUE]

\* A stop that also drops the sends the task has in flight.
stopAbortsSends(t) == [t EXCEPT !.state = "stopped", !.canceled = TRUE, !.inflight = 0]

\* ScheduledTask.stop()
stop(t) == [t EXCEPT !.state = "stopped", !.canceled = TRUE]

---------------------------------------------------------------------------
(* scheduler.ts / scheduler.server.ts *)

\* What a call leaves behind: whether it threw, the value it returned or the
\* message of the error, and the map and the timers after it.
Returns(v, m, ts) == [threw |-> FALSE, value |-> v, scheduled |-> m, tasks |-> ts]
Throws(msg, m, ts) == [threw |-> TRUE, value |-> msg, scheduled |-> m, tasks |-> ts]

\* An entry that is filed under the wrong kind.
CronEntryAsOnce(id, to, text, cron, job) ==
    [id |-> id, to |-> to, text |-> text, type |-> "once",
     when |-> toISOString(now), timeout |-> job]

\* The entry scheduleCron stores.
CronEntry(id, to, text, cron, job) ==
    [id |-> id, to |-> to, text |-> text, type |-> "cron", cron |-> cron, job |-> job]

\* An entry that reports the instant of the call in place of the instant asked for.
OnceEntryStampsNow(id, to, text, timestamp, timeout) ==
    [id |-> id, to |-> to, text |-> text, type |-> "once",
     when |-> toISOString(now), timeout |-> timeout]

\* The entry scheduleOnce stores.
OnceEntry(id, to, text, timestamp, timeout) ==
    [id |-> id, to |-> to, text |-> text, type |-> "once",
     when |-> toISOString(timestamp), timeout |-> timeout]

\* A check that lets a zero delay through.
NotInFutureStrict(delay) == delay < 0

\* if (delay <= 0) throw new Error("Time must be in the future")
NotInFuture(delay) == delay <= 0

\* A scheduleCron that stores the entry before nodeCron.schedule has accepted
\* the pattern.
scheduleCronStoresFirst(to, text, cron) ==
    LET job == Len(tasks) + 1
        id == ToString(now)
        stored == MapSet(scheduled, id, CronEntry(id, to, text, cron, job))
    IN  IF ~validate(cron)
        THEN Throws("invalid cron", stored, tasks)
        ELSE Returns(id, stored, Append(tasks, CronTask(to, text, cron, id)))

scheduleCron(to, text, cron) ==
    IF ~validate(cron)
    THEN Throws("invalid cron", scheduled, tasks)
    ELSE LET job == Len(tasks) + 1
             id == ToString(now)
         IN  Returns(id,
                     MapSet(scheduled, id, CronEntry(id, to, text, cron, job)),
                     Append(tasks, CronTask(to, text, cron, id)))

\* The Remix build logs scheduledTime.toISOString() before it checks the delay;
\* the Express build calls toISOString only when it builds the entry, after
\* setTimeout.
scheduleOnce(to, text, timestamp) ==
    LET delay == timestamp - now
        id == ToString(now)
        timeout == Len(tasks) + 1
        armed == Append(tasks, OnceTimer(to, text, id, delay))
    IN  IF build = "remix" /\ ~IsValidTime(timestamp)
        THEN Throws("Invalid time value", scheduled, tasks)
        ELSE IF NotInFuture(delay)
        THEN Throws("Time must be in the future", scheduled, tasks)
        ELSE IF ~IsValidTime(timestamp)
        THEN Throws("Invalid time value", scheduled, armed)
        ELSE Returns(id,
                     MapSet(scheduled, id, OnceEntry(id, to, text, timestamp, timeout)),
                     [armed EXCEPT ![timeout].stored = TRUE])

\* The timers after cancelScheduledJob has stopped the primitive of `job`.
StopPrimitive(job) ==
    IF job.type = "cron"
    THEN [tasks EXCEPT ![job.job] = stop(@)]
    ELSE [tasks EXCEPT ![job.timeout] = clearTimeout(@)]

\* A cancel that stops the primitive and forgets scheduled.delete(id).
cancelKeepsEntry(id) ==
    IF ~MapHas(scheduled, id)
    THEN Returns(FALSE, scheduled, tasks)
    ELSE Returns(TRUE, scheduled, StopPrimitive(MapGet(scheduled, id)))

cancelScheduledJob(id) ==
    IF ~MapHas(scheduled, id)
    THEN Returns(FALSE, scheduled, tasks)
    ELSE Returns(TRUE, MapDelete(scheduled, id), StopPrimitive(MapGet(scheduled, id)))

\* A summary that reports both schedule descriptions of every entry.
SummaryOfBoth(s) ==
    [id |-> s.id, to |-> s.to, text |-> s.text, type |-> s.type,
     cron |-> Some(IF s.type = "cron" THEN s.cron ELSE ""),
     when |-> Some(IF s.type = "once" THEN s.when ELSE toISOString(0))]

\* One summary of getAllScheduledJobs.
Summary(s) ==
    [id |-> s.id, to |-> s.to, text |-> s.text, type |-> s.type,
     cron |-> IF s.type = "cron" THEN Some(s.cron) ELSE Null,
     when |-> IF s.type = "once" THEN Some(s.when) ELSE Null]

\* An array that is a view of the map's values.
ArrayOverMap(items) == [backing |-> TRUE, items |-> items]

\* Array.from(...).map(...) builds a new array of new objects: what the caller
\* holds has its own items and no tie to the map.
ArrayFrom(items) == [backing |-> FALSE, items |-> items]

\* Array.from(m.values()).map(...)
Summaries(m) == [i \in 1..Len(m) |-> Summary(m[i])]

getAllScheduledJobs == Summaries(scheduled)

\* What the holder of array a reads from it when the map is m.
Read(a, m) == IF a.backing THEN Summaries(m) ELSE a.items

---------------------------------------------------------------------------
(* The request handlers *)

\* The response of a handler, with the map and the timers it leaves.
Respond(status, id, error, m, ts) ==
    [status |-> status, id |-> id, error |-> error, scheduled |-> m, tasks |-> ts]

\* try { id = schedule...(); res.json({ ok: true, id }) } catch (e) { res.status(400)... }
Answer(out) ==
    IF out.threw
    THEN Respond(400, "", out.value, out.scheduled, out.tasks)
    ELSE Respond(200, out.value, "", out.scheduled, out.tasks)

\* A check that asks for one of the two only.
MissingToAndText(to, text) == Falsy(to) /\ Falsy(text)

\* if (!to || !text)
MissingToOrText(to, text) == Falsy(to) \/ Falsy(text)

\* Express build, POST /api/schedule: the body carries no mode, a truthy cron
\* selects scheduleCron and otherwise a truthy timestamp selects scheduleOnce.
apiSchedule(req) ==
    IF MissingToOrText(req.to, req.text)
    THEN Respond(400, "", "to and text required", scheduled, tasks)
    ELSE IF ~Falsy(req.cron)
    THEN Answer(scheduleCron(req.to, req.text, req.cron))
    ELSE IF req.timestamp # 0
    THEN Answer(scheduleOnce(req.to, req.text, req.timestamp))
    ELSE Respond(400, "", "Either cron or timestamp must be provided", scheduled, tasks)

\* Remix build, POST /api/schedule: mode "once" selects scheduleOnce, any other
\* mode scheduleCron.
remixSchedule(req) ==
    IF MissingToOrText(req.to, req.text)
    THEN Respond(400, "", "Phone number and message are required", scheduled, tasks)
    ELSE IF req.mode = "once"
    THEN IF req.timestamp = 0
         THEN Respond(400, "", "Timestamp is required for one-time messages",
                      scheduled, tasks)
         ELSE Answer(scheduleOnce(req.to, req.text, req.timestamp))
    ELSE IF Falsy(req.cron)
         THEN Respond(400, "", "CRON expression is required for recurring messages",
                      scheduled, tasks)
         ELSE Answer(scheduleCron(req.to, req.text, req.cron))

\* Remix build, the page action with intent "schedule": it first asks
\* getConnectionStatus(), whose answer the request record carries.
actionSchedule(req) ==
    IF req.connection # "connected"
    THEN Respond(400, "", "WhatsApp is not connected", scheduled, tasks)
    ELSE remixSchedule(req)

\* DELETE /api/schedule/:id and the page action with intent "cancel".
deleteSchedule(req) ==
    LET out == cancelScheduledJob(req.jobId)
    IN  IF out.value
        THEN Respond(200, req.jobId, "", out.scheduled, out.tasks)
        ELSE Respond(404, req.jobId, "not found", out.scheduled, out.tasks)

\* The schedule requests served at a clock reading.  A request that must be
\* turned away for its recipient, its body or the connection carries a time
\* specification that would be accepted, so that nothing else turns it away.
ScheduleRequests(entries, modes, connections) ==
    {req \in [entry : entries, to : Recipients, text : Bodies, mode : modes,
              cron : Patterns, timestamp : Timestamps(now), connection : connections] :
        (Falsy(req.to) \/ Falsy(req.text) \/ req.connection # "connected")
            => (req.timestamp = now + 1 /\ req.cron \in {"", "* * * * *"})}

CancelRequests(entries) == [entry : entries, jobId : JobIds]

\* The schedule requests the running build serves, and the handler of each.
Requests ==
    IF build = "express"
    THEN ScheduleRequests({"POST /api/schedule"}, {Undefined}, {"connected"})
    ELSE ScheduleRequests({"POST /api/schedule"}, Modes, {"connected"})
         \cup ScheduleRequests({"action"}, Modes, {"connected", "disconnected"})

Handler(req) ==
    IF build = "express" THEN apiSchedule(req)
    ELSE IF req.entry = "action" THEN actionSchedule(req)
    ELSE remixSchedule(req)

\* A handler runs to its response in one step of the event loop, and leaves
\* the map and the timers of its response.
Serve(res) ==
    /\ Len(res.tasks) <= MaxJobs
    /\ scheduled' = res.scheduled
    /\ tasks' = res.tasks
    /\ UNCHANGED <<build, now, wa, contacts>>

PostApiSchedule ==
    /\ build = "express"
    /\ \E req \in ScheduleRequests({"POST /api/schedule"}, {Undefined}, {"connected"}) :
          Serve(apiSchedule(req))

PostSchedule ==
    /\ build = "remix"
    /\ \E req \in ScheduleRequests({"POST /api/schedule"}, Modes, {"connected"}) :
          Serve(remixSchedule(req))

ActionSchedule ==
    /\ build = "remix"
    /\ \E req \in ScheduleRequests({"action"}, Modes, {"connected", "disconnected"}) :
          Serve(actionSchedule(req))

DeleteSchedule ==
    /\ \E req \in CancelRequests({"DELETE /api/schedule/:id"}) :
          Serve(deleteSchedule(req))

ActionCancel ==
    /\ build = "remix"
    /\ \E req \in CancelRequests({"action"}) :
          Serve(deleteSchedule(req))

---------------------------------------------------------------------------
(* The event loop: timers, cron matches, sends *)

\* A timer whose callback waits until no send of any job is in flight.
TimeoutFiresInTurn(h) ==
    /\ tasks[h].type = "once"
    /\ tasks[h].state = "pending"
    /\ now >= tasks[h].due
    /\ \A g \in 1..Len(tasks) : tasks[g].inflight = 0
    /\ tasks' = [tasks EXCEPT ![h] = TimerFired(@)]
    /\ UNCHANGED <<build, now, scheduled, wa, contacts>>

\* A pending timer fires once its delay has elapsed; the callback calls sendMessage.
TimeoutFires(h) ==
    /\ tasks[h].type = "once"
    /\ tasks[h].state = "pending"
    /\ now >= tasks[h].due
    /\ tasks' = [tasks EXCEPT ![h] = TimerFired(@)]
    /\ UNCHANGED <<build, now, scheduled, wa, contacts>>

\* A cron task that skips a match while a send of an earlier fire is in flight.
CronFiresWhenIdle(h) ==
    /\ tasks[h].type = "cron"
    /\ tasks[h].state = "running"
    /\ now % TicksPerMinute = 0
    /\ tasks[h].lastFire # now
    /\ Matches(tasks[h].cron, now \div TicksPerMinute)
    /\ tasks[h].inflight = 0
    /\ tasks' = [tasks EXCEPT ![h] = CronFired(@)]
    /\ UNCHANGED <<build, now, scheduled, wa, contacts>>

\* A running cron task fires at the start of a minute its pattern matches.
CronFires(h) ==
    /\ tasks[h].type = "cron"
    /\ tasks[h].state = "running"
    /\ now % TicksPerMinute = 0
    /\ tasks[h].lastFire # now
    /\ Matches(tasks[h].cron, now \div TicksPerMinute)
    /\ tasks' = [tasks EXCEPT ![h] = CronFired(@)]
    /\ UNCHANGED <<build, now, scheduled, wa, contacts>>

\* A callback that deletes its id whatever the kind of the job and however
\* the send settled.
AfterSendDeletesAlways(t, ok) == MapDelete(scheduled, t.id)

\* A callback that never deletes its id.
AfterSendKeepsEntry(t, ok) == scheduled

\* The map after the callback of task t has seen its send settle: the one-shot
\* callback deletes its id after a send that succeeded; its catch branch and
\* the cron callback only log.
AfterSend(t, ok) ==
    IF t.type = "once" /\ ok THEN MapDelete(scheduled, t.id) ELSE scheduled

\* A callback that sends again when its send has failed.
SettleRetries(h, ok) ==
    /\ tasks[h].inflight > 0
    /\ tasks' = [tasks EXCEPT ![h].inflight = IF ok THEN @ - 1 ELSE @,
                              ![h].outcomes = Append(@, IF ok THEN "sent" ELSE "failed"),
                              ![h].sent = IF ok THEN @ ELSE Append(@, SendArgs(tasks[h]))]
    /\ scheduled' = AfterSend(tasks[h], ok)
    /\ UNCHANGED <<build, now, wa, contacts>>

Settle(h, ok) ==
    /\ tasks[h].inflight > 0
    /\ tasks' = [tasks EXCEPT ![h].inflight = @ - 1,
                              ![h].outcomes = Append(@, IF ok THEN "sent" ELSE "failed")]
    /\ scheduled' = AfterSend(tasks[h], ok)
    /\ UNCHANGED <<build, now, wa, contacts>>

\* await sendMessage(to, text) resolves.
SendResolves(h) == Settle(h, TRUE)

\* sendMessage throws or rejects: the socket is not initialized, or the send fails.
SendRejects(h) == Settle(h, FALSE)

\* A millisecond passes.
Tick ==
    /\ now < EndOfTime
    /\ now' = now + 1
    /\ UNCHANGED <<build, scheduled, tasks, wa, contacts>>

---------------------------------------------------------------------------
(* The WhatsApp service: whatsapp.server.ts / services/whatsapp.ts *)

\* The reasons a connection.update event of kind "close" carries: the status
\* code of lastDisconnect.error, which may be absent.
DisconnectReasons == {"loggedOut", "connectionLost", "restartRequired", Undefined}

\* The socket makeWASocket returns: connecting, with no disconnect so far.
Socket == [connection |-> "connecting", lastDisconnect |-> "none"]

\* A handler that starts a new initialization on every close.
ReconnectsAlways(code) == TRUE

\* if (code !== DisconnectReason.loggedOut) initializeWhatsApp()
Reconnects(code) == code # "loggedOut"

\* initializeWhatsApp, from makeWASocket on: the awaited reads are done, the
\* socket is created and assigned to `sock`, and the handlers are registered.
MakeSocket ==
    /\ inits > 0
    /\ Len(sockets) < MaxSockets
    /\ sockets' = Append(sockets, Socket)
    /\ sock' = Len(sockets) + 1
    /\ inits' = inits - 1
    /\ UNCHANGED <<build, now, scheduled, tasks, contacts>>

\* connection.update with connection === "open" on socket s.
ConnectionOpens(s) ==
    /\ sockets[s].connection = "connecting"
    /\ sockets' = [sockets EXCEPT ![s].connection = "open"]
    /\ UNCHANGED <<build, now, scheduled, tasks, sock, inits, contacts>>

\* connection.update with connection === "close" on socket s: the handler
\* calls initializeWhatsApp again unless the session was logged out.
ConnectionCloses(s, code) ==
    /\ sockets[s].connection # "close"
    /\ sockets' = [sockets EXCEPT ![s].connection = "close", ![s].lastDisconnect = code]
    /\ inits' = IF Reconnects(code) THEN inits + 1 ELSE inits
    /\ UNCHANGED <<build, now, scheduled, tasks, sock, contacts>>

WaNext ==
    \/ MakeSocket
    \/ \E s \in 1..Len(sockets) : ConnectionOpens(s)
    \/ \E s \in 1..Len(sockets), code \in DisconnectReasons : ConnectionCloses(s, code)

\* sock = null
NoSocket == 0

\* logoutWhatsApp: when `sock` is set, sock.logout() either ends the socket
\* with reason logged-out, or throws and leaves the socket as it is (the catch
\* only logs); `sock` is set to null, the auth state is cleared, and
\* initializeWhatsApp is called.  A socket that is closed emits no further
\* event.
LogoutWhatsApp(ends) ==
    /\ Len(sockets) + inits < MaxSockets
    /\ sockets' = IF sock # NoSocket /\ ends /\ sockets[sock].connection # "close"
                  THEN [sockets EXCEPT ![sock].connection = "close",
                                       ![sock].lastDisconnect = "loggedOut"]
                  ELSE sockets
    /\ sock' = NoSocket
    /\ inits' = inits + 1
    /\ UNCHANGED <<build, now, scheduled, tasks, contacts>>

LogoutNext ==
    \/ WaNext
    \/ \E ends \in BOOLEAN : LogoutWhatsApp(ends)

---------------------------------------------------------------------------
(* The contacts: the table, the database functions and their handlers *)

\* formData.get of a field the form does not carry.
FormNull == "<null>"

\* A text is the sequence of its characters; a field that is absent is the
\* one-element sequence of the value that stands for it.
Absent(v) == <<v>>
Digits == {"0", "1", "2", "3", "4", "5", "6", "7", "8", "9"}

ContactNames == {Undefined, FormNull, "", "Ann", "Bob"}
ContactPhones ==
    {Absent(Undefined), Absent(FormNull), <<>>, <<"4", "9">>, <<"4", "x">>, <<"7">>}

\* !name and !phone
NoName(name) == name \in {Undefined, FormNull, ""}
NoPhone(phone) == phone \in {Absent(Undefined), Absent(FormNull), <<>>}

\* /^\d+$/.test(phone)
DigitsOnly(phone) == Len(phone) >= 1 /\ \A i \in 1..Len(phone) : phone[i] \in Digits

\* What a database call leaves: the error code it threw with ("" for none),
\* whether a row was returned, and the rows of the table.
DbResult(code, found, rows) == [code |-> code, found |-> found, contacts |-> rows]

\* INSERT INTO contacts (name, phone): phone is UNIQUE.
createContact(data) ==
    IF \E i \in 1..Len(contacts) : contacts[i].phone = data.phone
    THEN DbResult("23505", FALSE, contacts)
    ELSE DbResult("", TRUE,
                  Append(contacts, [id |-> Len(contacts) + 1,
                                    name |-> data.name, phone |-> data.phone]))

\* updateContact: a field that is not undefined is set; name and phone are
\* NOT NULL and phone is UNIQUE; an id with no row updates nothing.
updateContact(id, data) ==
    LET setName == data.name # Undefined
        setPhone == data.phone # Absent(Undefined)
        row == IF id \in 1..Len(contacts) THEN contacts[id] ELSE [id |-> 0]
        new == [id |-> id,
                name |-> IF setName THEN data.name ELSE row.name,
                phone |-> IF setPhone THEN data.phone ELSE row.phone]
    IN  IF id \notin 1..Len(contacts)
        THEN DbResult("", FALSE, contacts)
        ELSE IF (setName /\ data.name = FormNull) \/ (setPhone /\ data.phone = Absent(FormNull))
        THEN DbResult("23502", FALSE, contacts)
        ELSE IF setPhone /\ \E i \in 1..Len(contacts) : i # id /\ contacts[i].phone = data.phone
        THEN DbResult("23505", FALSE, contacts)
        ELSE DbResult("", TRUE, [contacts EXCEPT ![id] = new])

\* The response of a contacts handler and the rows it leaves.
ContactResponse(status, rows) == [status |-> status, contacts |-> rows]

\* catch (err): 409 for a unique violation, 500 for any other error.
ContactAnswer(out, ok) ==
    IF out.code = "23505" THEN ContactResponse(409, out.contacts)
    ELSE IF out.code # "" THEN ContactResponse(500, out.contacts)
    ELSE IF ~out.found THEN ContactResponse(404, out.contacts)
    ELSE ContactResponse(ok, out.contacts)

\* POST /api/contacts and the contacts page action with intent "create".
createContactHandler(req) ==
    IF NoName(req.name) \/ NoPhone(req.phone)
    THEN ContactResponse(400, contacts)
    ELSE IF ~DigitsOnly(req.phone)
    THEN ContactResponse(400, contacts)
    ELSE ContactAnswer(createContact([name |-> req.name, phone |-> req.phone]), 201)

\* PUT /api/contacts/:id and the contacts page action with intent "update".
updateContactHandler(req) ==
    IF NoName(req.name) /\ NoPhone(req.phone)
    THEN ContactResponse(400, contacts)
    ELSE IF ~NoPhone(req.phone) /\ ~DigitsOnly(req.phone)
    THEN ContactResponse(400, contacts)
    ELSE ContactAnswer(updateContact(req.id, [name |-> req.name, phone |-> req.phone]), 200)

\* The contact requests of an entry point: a JSON body leaves a field out as
\* undefined, a form as null.
ContactRequests(absent) ==
    [id : 1..MaxContacts, name : ContactNames \ {absent},
     phone : ContactPhones \ {Absent(absent)}]

ServeContact(res) ==
    /\ Len(res.contacts) <= MaxContacts
    /\ contacts' = res.contacts
    /\ UNCHANGED <<build, now, scheduled, tasks, wa>>

PostContact ==
    /\ build = "express"
    /\ \E req \in ContactRequests(FormNull) : ServeContact(createContactHandler(req))

PutContact ==
    /\ build = "express"
    /\ \E req \in ContactRequests(FormNull) : ServeContact(updateContactHandler(req))

ActionCreateContact ==
    /\ build = "remix"
    /\ \E req \in ContactRequests(Undefined) : ServeContact(createContactHandler(req))

ActionUpdateContact ==
    /\ build = "remix"
    /\ \E req \in ContactRequests(Undefined) : ServeContact(updateContactHandler(req))

ContactNext ==
    \/ PostContact
    \/ PutContact
    \/ ActionCreateContact
    \/ ActionUpdateContact

---------------------------------------------------------------------------

Init ==
    /\ build \in {"express", "remix"}
    /\ now = ClockStart
    /\ scheduled = <<>>
    /\ tasks = <<>>
    /\ sock = 1
    /\ sockets = <<Socket>>
    /\ inits = 0
    /\ contacts = <<>>

Next ==
    \/ PostApiSchedule
    \/ PostSchedule
    \/ ActionSchedule
    \/ DeleteSchedule
    \/ ActionCancel
    \/ \E h \in 1..Len(tasks) : TimeoutFires(h)
    \/ \E h \in 1..Len(tasks) : CronFires(h)
    \/ \E h \in 1..Len(tasks) : SendResolves(h)
    \/ \E h \in 1..Len(tasks) : SendRejects(h)
    \/ Tick

Spec == Init /\ [][Next]_vars

\* The WhatsApp service and the contacts on their own.
WaSpec == Init /\ [][WaNext]_vars

ContactSpec == Init /\ [][ContactNext]_vars

\* The WhatsApp service with the logout action of the page and of the API.
LogoutSpec == Init /\ [][LogoutNext]_vars

\* A map that is read back from what the process held before it exited.
RestoredMap == scheduled

\* const scheduled = new Map(): the map a starting process creates.
FreshMap == <<>>

\* A timer or task of a process that has exited: it never runs again, and the
\* sends it had in flight never report back.
Abandon(t) == [t EXCEPT !.state = "abandoned", !.inflight = 0]

\* The process exits and is started again: the module is loaded anew, and the
\* timers and tasks of the old process are gone with it.
Restart ==
    /\ \E h \in 1..Len(tasks) : tasks[h].state # "abandoned"
    /\ scheduled' = FreshMap
    /\ tasks' = [h \in 1..Len(tasks) |-> Abandon(tasks[h])]
    /\ UNCHANGED <<build, now, wa, contacts>>

RestartNext == Next \/ Restart

RestartSpec == Init /\ [][RestartNext]_vars

\* The event loop runs a timer's callback once the timer is due, and a send
\* that was started settles, one way or the other; the clock advances.
TimerRuns(h) == h \in 1..Len(tasks) /\ TimeoutFires(h)
SendSettles(h) == h \in 1..Len(tasks) /\ (SendResolves(h) \/ SendRejects(h))

LiveSpec ==
    /\ Spec
    /\ WF_vars(Tick)
    /\ \A h \in 1..MaxJobs : WF_vars(TimerRuns(h)) /\ WF_vars(SendSettles(h))

---------------------------------------------------------------------------
(* Properties.  A property of a handler or of a scheduler function is stated  *)
(* over every reachable state and every request or argument it may be given   *)
(* there: the operators below are the ones the actions take their steps from. *)

OnceTimers == {h \in 1..Len(tasks) : tasks[h].type = "once"}
CronTasks == {h \in 1..Len(tasks) : tasks[h].type = "cron"}

\* The ids of a list() result.
Ids(list) == {list[i].id : i \in 1..Len(list)}

\* A job is live from its creation until its timer fires or it is canceled.
IsLive(h) ==
    /\ tasks[h].stored
    /\ ~tasks[h].canceled
    /\ tasks[h].type = "once" => tasks[h].state = "pending"

(* C1: a once job's callback calls send exactly once when its timer fires and *)
(* never before or again: a timer that has not fired has sent nothing, a      *)
(* timer that has fired has sent once, with the recipient and the body        *)
(* scheduleOnce was given, and a send that failed is not started again.       *)
C1_OnceSendsExactlyOnce ==
    /\ \A h \in OnceTimers :
          LET t == tasks[h]
          IN  /\ Len(t.sent) = (IF t.state = "fired" THEN 1 ELSE 0)
              /\ \A k \in 1..Len(t.sent) : t.sent[k] = [to |-> t.to, text |-> t.text]
              /\ t.inflight + Len(t.outcomes) = Len(t.sent)
    /\ \A to \in Recipients, text \in Bodies, T \in Timestamps(now) :
          LET out == scheduleOnce(to, text, T)
              new == Len(out.tasks)
          IN  new > Len(tasks) => out.tasks[new].to = to /\ out.tasks[new].text = text

\* A timer fired, its send failed, and time went on without another send.
C1_Witness ==
    \E h \in OnceTimers :
        /\ tasks[h].state = "fired"
        /\ tasks[h].outcomes = <<"failed">>
        /\ ~tasks[h].canceled
        /\ now > tasks[h].due

(* C2: once the delivery attempt of a once job has completed, with a send    *)
(* that succeeded or one that failed, list() does not contain the job's id.  *)
C2_FiredOnceJobRemoved ==
    \A h \in OnceTimers :
        (tasks[h].stored /\ tasks[h].state = "fired" /\ tasks[h].inflight = 0)
            => tasks[h].id \notin Ids(getAllScheduledJobs)

(* C3: cancel(id) on an id present in the store returns true, stops the      *)
(* primitive the entry owns according to its kind and removes the entry, so  *)
(* that list() no longer contains id; the DELETE handler answers 200.        *)
C3_CancelStopsAndRemoves ==
    \A id \in JobIds :
        MapHas(scheduled, id) =>
            LET job == MapGet(scheduled, id)
                out == cancelScheduledJob(id)
                res == deleteSchedule([entry |-> "DELETE /api/schedule/:id", jobId |-> id])
            IN  /\ out.value = TRUE
                /\ id \notin Ids(Summaries(out.scheduled))
                /\ job.type = "cron" => out.tasks[job.job].state = "stopped"
                /\ job.type = "once" => out.tasks[job.timeout].state # "pending"
                /\ \A h \in 1..Len(tasks) :
                      h # (IF job.type = "cron" THEN job.job ELSE job.timeout)
                          => out.tasks[h] = tasks[h]
                /\ res.status = 200
                /\ res.scheduled = out.scheduled /\ res.tasks = out.tasks

\* A pending timer and a running task have both been canceled.
C3_Witness ==
    /\ \E h \in OnceTimers : tasks[h].canceled /\ tasks[h].state = "cleared"
    /\ \E h \in CronTasks : tasks[h].canceled /\ tasks[h].state = "stopped"
    /\ scheduled = <<>>

(* C4: after cancel(id) has returned true, the timer or trigger of the       *)
(* canceled job starts no send any more.                                     *)
C4_NoFireAfterCancel ==
    [][\A h \in 1..Len(tasks) : tasks[h].canceled => tasks'[h].sent = tasks[h].sent]_vars

\* A canceled timer whose instant has come, beside a canceled task in a
\* minute that matches its pattern.
C4_Witness ==
    /\ \E h \in OnceTimers :
          tasks[h].canceled /\ tasks[h].state = "cleared" /\ now >= tasks[h].due
    /\ \E h \in CronTasks :
          /\ tasks[h].canceled
          /\ now > tasks[h].lastFire
          /\ now % TicksPerMinute = 0
          /\ Matches(tasks[h].cron, now \div TicksPerMinute)

(* C5: cancel(id) returns false and changes nothing whenever id is not the   *)
(* id of a live job: never issued, already canceled, or the id of a once job *)
(* whose timer has fired.                                                    *)
C5_CancelOfDeadIdFails ==
    \A id \in JobIds :
        (~\E h \in 1..Len(tasks) : tasks[h].id = id /\ IsLive(h)) =>
            LET out == cancelScheduledJob(id)
            IN  out.value = FALSE /\ out.scheduled = scheduled /\ out.tasks = tasks

\* A request for a one-time message: mode "once" in the Remix build; in the
\* Express build, which has no mode, a request that carries no pattern.
IsOnceRequest(req) ==
    IF build = "express" THEN Falsy(req.cron) ELSE req.mode = "once"

\* A request for a recurring message: any other mode in the Remix build; in
\* the Express build a request that carries a pattern, or no timestamp.
IsRecurringRequest(req) ==
    IF build = "express" THEN ~Falsy(req.cron) \/ req.timestamp = 0
    ELSE req.mode # "once"

\* The recipient and the body are given and the page action sees a connection.
WellAddressed(req) ==
    ~Falsy(req.to) /\ ~Falsy(req.text) /\ req.connection = "connected"

\* The response turns the request away and leaves the map and the timers alone.
Rejected(res) ==
    res.status = 400 /\ res.error # "" /\ res.scheduled = scheduled /\ res.tasks = tasks

\* list() on map m holds exactly one entry with this id, a once job for
\* instant T with this recipient and body.
OnceListed(m, id, to, text, T) ==
    LET list == Summaries(m)
        at == {i \in 1..Len(list) : list[i].id = id}
    IN  /\ Cardinality(at) = 1
        /\ \A i \in at :
              /\ list[i].type = "once" /\ list[i].to = to /\ list[i].text = text
              /\ list[i].cron = Null
              /\ list[i].when # Null
              /\ DateParse(list[i].when[1]) = T

\* list() on map m holds exactly one entry with this id, a recurring job with
\* this pattern, recipient and body.
CronListed(m, id, to, text, cron) ==
    LET list == Summaries(m)
        at == {i \in 1..Len(list) : list[i].id = id}
    IN  /\ Cardinality(at) = 1
        /\ \A i \in at :
              /\ list[i].type = "cron" /\ list[i].to = to /\ list[i].text = text
              /\ list[i].cron = Some(cron)
              /\ list[i].when = Null

\* C6 as it was claimed, for every T strictly in the future.
C6_AnyFutureInstant ==
    /\ \A to \in Recipients, text \in Bodies, T \in Timestamps(now) :
          T > now =>
              LET out == scheduleOnce(to, text, T)
              IN  ~out.threw /\ OnceListed(out.scheduled, out.value, to, text, T)
    /\ \A req \in Requests :
          (IsOnceRequest(req) /\ WellAddressed(req) /\ req.timestamp > now) =>
              LET res == Handler(req)
              IN  /\ res.status = 200
                  /\ OnceListed(res.scheduled, res.id, req.to, req.text, req.timestamp)

(* C6: schedule(recipient, body, once, T) with T strictly in the future and   *)
(* within the range of a Date returns an id, and list() right after it holds  *)
(* exactly one entry with that id: kind once, the given recipient and body,   *)
(* and firesAt equal to T.                                                    *)
C6_FutureInstantListed ==
    /\ \A to \in Recipients, text \in Bodies, T \in Timestamps(now) :
          (T > now /\ IsValidTime(T)) =>
              LET out == scheduleOnce(to, text, T)
              IN  ~out.threw /\ OnceListed(out.scheduled, out.value, to, text, T)
    /\ \A req \in Requests :
          (/\ IsOnceRequest(req) /\ WellAddressed(req)
           /\ req.timestamp > now /\ IsValidTime(req.timestamp)) =>
              LET res == Handler(req)
              IN  /\ res.status = 200
                  /\ OnceListed(res.scheduled, res.id, req.to, req.text, req.timestamp)

\* The map holds the once job scheduled at this instant, its timer pending.
C6_Witness ==
    \E i \in 1..Len(scheduled) :
        /\ scheduled[i].type = "once"
        /\ scheduled[i].id = ToString(now)
        /\ DateParse(scheduled[i].when) > now
        /\ tasks[scheduled[i].timeout].state = "pending"
        /\ OnceListed(scheduled, scheduled[i].id, "1555000111", "hello",
                      DateParse(scheduled[i].when))

(* C7: schedule(recipient, body, recurring, pattern) with a well-formed       *)
(* pattern returns an id, and list() then holds one entry with that id: kind  *)
(* recurring, the given recipient and body, the pattern unchanged.            *)
C7_RecurringListed ==
    /\ \A to \in Recipients, text \in Bodies, cron \in Patterns :
          validate(cron) =>
              LET out == scheduleCron(to, text, cron)
              IN  ~out.threw /\ CronListed(out.scheduled, out.value, to, text, cron)
    /\ \A req \in Requests :
          (IsRecurringRequest(req) /\ WellAddressed(req) /\ validate(req.cron)) =>
              LET res == Handler(req)
              IN  /\ res.status = 200
                  /\ CronListed(res.scheduled, res.id, req.to, req.text, req.cron)

\* The map holds the recurring job scheduled at this instant, its task running.
C7_Witness ==
    \E i \in 1..Len(scheduled) :
        /\ scheduled[i].type = "cron"
        /\ scheduled[i].id = ToString(now)
        /\ tasks[scheduled[i].job].state = "running"
        /\ CronListed(scheduled, scheduled[i].id, "1555000111", "hello", "* * * * *")

(* C8: schedule(..., once, T) with T - now <= 0 fails with an error, and      *)
(* leaves no entry and no timer behind.                                       *)
C8_PastInstantRejected ==
    /\ \A to \in Recipients, text \in Bodies, T \in Timestamps(now) :
          T - now <= 0 =>
              LET out == scheduleOnce(to, text, T)
              IN  out.threw /\ out.scheduled = scheduled /\ out.tasks = tasks
    /\ \A req \in Requests :
          (IsOnceRequest(req) /\ req.timestamp - now <= 0) => Rejected(Handler(req))

\* A request for the present instant is turned away while a job is in the map.
C8_Witness ==
    /\ scheduled # <<>>
    /\ \E req \in Requests :
          /\ IsOnceRequest(req) /\ WellAddressed(req) /\ req.timestamp = now
          /\ Handler(req).error = "Time must be in the future"

(* C9: schedule(..., recurring, pattern) with a malformed pattern fails with  *)
(* an error before any trigger is created: no entry, no task, hence no send.  *)
C9_MalformedPatternRejected ==
    /\ \A to \in Recipients, text \in Bodies, cron \in Patterns :
          ~validate(cron) =>
              LET out == scheduleCron(to, text, cron)
              IN  out.threw /\ out.scheduled = scheduled /\ out.tasks = tasks
    /\ \A req \in Requests :
          (IsRecurringRequest(req) /\ ~validate(req.cron)) => Rejected(Handler(req))

\* A malformed pattern is turned away by nodeCron.schedule while a job is in the map.
C9_Witness ==
    /\ scheduled # <<>>
    /\ \E req \in Requests :
          /\ IsRecurringRequest(req) /\ WellAddressed(req) /\ req.cron = "not a cron"
          /\ Handler(req).error = "invalid cron"

(* C10: a schedule request whose recipient or body is missing or empty fails  *)
(* with a validation error and creates no entry, no timer and no task.        *)
C10_MissingFieldsRejected ==
    \A req \in Requests :
        (Falsy(req.to) \/ Falsy(req.text)) => Rejected(Handler(req))

\* A request without a body and one with an empty recipient are turned away
\* while a job is in the map.
C10_Witness ==
    /\ scheduled # <<>>
    /\ \E req \in Requests :
          /\ req.text = Undefined /\ ~Falsy(req.to) /\ req.connection = "connected"
          /\ Handler(req).status = 400
    /\ \E req \in Requests :
          /\ req.to = "" /\ ~Falsy(req.text) /\ req.connection = "connected"
          /\ Handler(req).status = 400

(* C11: schedule is all-or-nothing: a schedule call that ends with an error   *)
(* has added no entry to the map and has left no timer or task armed that     *)
(* could later fire a send.                                                   *)
C11_FailedScheduleCreatesNothing ==
    /\ \A to \in Recipients, text \in Bodies, T \in Timestamps(now) :
          LET out == scheduleOnce(to, text, T)
          IN  out.threw => (out.scheduled = scheduled /\ out.tasks = tasks)
    /\ \A to \in Recipients, text \in Bodies, cron \in Patterns :
          LET out == scheduleCron(to, text, cron)
          IN  out.threw => (out.scheduled = scheduled /\ out.tasks = tasks)
    /\ \A req \in Requests :
          LET res == Handler(req)
          IN  res.status # 200 => (res.scheduled = scheduled /\ res.tasks = tasks)

\* The handle an entry of the map holds.
Handle(e) == IF e.type = "cron" THEN e.job ELSE e.timeout

\* The entries of the map that hold handle h.
EntriesOf(h) == {i \in 1..Len(scheduled) : Handle(scheduled[i]) = h}

(* C12: a recurring job calls send with its original recipient and body, once *)
(* at an instant its pattern matches, and until it is canceled its entry is   *)
(* in list() after every firing, with its id, kind, recipient and body.       *)
C12_RecurringFiresAndStays ==
    \A h \in CronTasks :
        LET t == tasks[h]
            list == getAllScheduledJobs
        IN  /\ \A k \in 1..Len(t.sent) : t.sent[k] = [to |-> t.to, text |-> t.text]
            /\ t.inflight + Len(t.outcomes) = Len(t.sent)
            /\ ~t.canceled =>
                  \E i \in 1..Len(list) :
                      /\ list[i].id = t.id /\ list[i].type = "cron"
                      /\ list[i].to = t.to /\ list[i].text = t.text
                      /\ list[i].cron = Some(t.cron)

\* The last send of task t that has settled has failed.
LastSendFailed(t) ==
    Len(t.outcomes) > 0 /\ t.outcomes[Len(t.outcomes)] = "failed"

(* C13: a failed send of a recurring job's fire does not stop the trigger:    *)
(* the step on which the send fails leaves the map and the task's state as    *)
(* they are, and after it, until the job is canceled, the task is running and *)
(* fires at the next instant its pattern matches.                             *)
C13_FailedSendKeepsTrigger ==
    [][\A h \in CronTasks :
          /\ (Len(tasks'[h].outcomes) > Len(tasks[h].outcomes) /\ LastSendFailed(tasks'[h]))
                => (scheduled' = scheduled /\ tasks'[h].state = tasks[h].state)
          /\ (LastSendFailed(tasks[h]) /\ ~tasks[h].canceled)
                => /\ tasks[h].state = "running"
                   /\ (/\ now % TicksPerMinute = 0
                       /\ tasks[h].lastFire # now
                       /\ Matches(tasks[h].cron, now \div TicksPerMinute))
                         => ENABLED CronFires(h)]_vars

\* A recurring job whose send failed has fired again, and failed again.
C13_Witness ==
    \E h \in CronTasks :
        /\ tasks[h].outcomes = <<"failed", "failed">>
        /\ ~tasks[h].canceled
        /\ EntriesOf(h) # {}

(* C14: no two live jobs, that is jobs whose timer is pending or whose task   *)
(* is running, have the same id.                                              *)
C14_LiveIdsUnique ==
    \A g, h \in 1..Len(tasks) :
        (g # h /\ IsLive(g) /\ IsLive(h)) => tasks[g].id # tasks[h].id

\* A timer that can still fire, or a task that still fires.
Armed(h) == tasks[h].state \in {"pending", "running"}

(* C15: each live job owns one timer or task, and the entry of the map under  *)
(* its id holds that handle; no armed timer and no running task is out of     *)
(* reach of the entries of the map.                                           *)
C15_PrimitivesOwnedByStore ==
    /\ \A h \in 1..Len(tasks) : Armed(h) => Cardinality(EntriesOf(h)) = 1
    /\ \A h \in 1..Len(tasks) :
          IsLive(h) => \A i \in EntriesOf(h) : scheduled[i].id = tasks[h].id

(* C16: while the job a schedule call created is live, cancel on the id the   *)
(* call returned stops and removes that job, and no other job.                *)
C16_CancelHitsOwnJob ==
    \A h \in 1..Len(tasks) :
        IsLive(h) =>
            LET out == cancelScheduledJob(tasks[h].id)
            IN  /\ out.value = TRUE
                /\ out.tasks[h].state \notin {"pending", "running"}
                /\ \A g \in 1..Len(tasks) : g # h => out.tasks[g] = tasks[g]
                /\ tasks[h].id \notin Ids(Summaries(out.scheduled))

(* C17: the entry of a recurring job leaves the map only on the step that     *)
(* cancels the job: no other step takes it out of list().                     *)
C17_RecurringLeavesOnlyByCancel ==
    [][\A h \in CronTasks :
          (/\ \E i \in 1..Len(scheduled) : Handle(scheduled[i]) = h
           /\ ~\E i \in 1..Len(scheduled') : Handle(scheduled'[i]) = h)
              => (~tasks[h].canceled /\ tasks'[h].canceled)]_vars

(* C18: list() returns exactly the live jobs: every live job has its entry in *)
(* the result, and the timer of every once entry returned has not fired.      *)
C18_ListIsLiveJobs ==
    /\ \A h \in 1..Len(tasks) :
          IsLive(h) => \E i \in EntriesOf(h) : getAllScheduledJobs[i].id = tasks[h].id
    /\ \A i \in 1..Len(scheduled) :
          getAllScheduledJobs[i].type = "once"
              => tasks[scheduled[i].timeout].state = "pending"

C21_ListReportsStoredFields ==
    LET list == getAllScheduledJobs
    IN  \A i \in 1..Len(list) :
            LET e == scheduled[i]
                t == tasks[Handle(e)]
            IN  /\ list[i].id = t.id /\ list[i].to = t.to /\ list[i].text = t.text
                /\ list[i].type = t.type
                /\ list[i].type = "once" =>
                      (list[i].when = Some(e.when) /\ list[i].cron = Null)
                /\ list[i].type = "cron" =>
                      (list[i].cron = Some(t.cron) /\ list[i].when = Null)

\* list() returns a once job and a recurring job.
C21_Witness ==
    /\ \E i \in 1..Len(getAllScheduledJobs) : getAllScheduledJobs[i].type = "once"
    /\ \E i \in 1..Len(getAllScheduledJobs) : getAllScheduledJobs[i].type = "cron"

(* C23: the send of a once job is never started before the job's firesAt:    *)
(* the timer waits the whole delay, however long.                            *)
C23_NoSendBeforeFiresAt ==
    \A i \in 1..Len(scheduled) :
        (scheduled[i].type = "once" /\ tasks[scheduled[i].timeout].sent # <<>>)
            => now >= DateParse(scheduled[i].when)

(* C24: a schedule request supplies exactly one time specification, the one  *)
(* of its mode: a request with both a timestamp and a pattern, or with only  *)
(* the specification of the other mode, is rejected and creates no job.      *)
C24_OneTimeSpecification ==
    \A req \in Requests :
        LET hasTimestamp == req.timestamp # 0
            hasCron == ~Falsy(req.cron)
        IN  (\/ hasTimestamp /\ hasCron
             \/ req.mode = "once" /\ ~hasTimestamp
             \/ req.mode = "cron" /\ ~hasCron)
                => Rejected(Handler(req))

(* C25: a send that fails is handled inside the fire callback: the step on   *)
(* which it fails starts no new send (no retry), leaves the map as it is, and *)
(* changes no other job's timer or task; and every handler answers after it  *)
(* as it would have answered before.                                         *)
C25_SendFailureStaysLocal ==
    [][\A h \in 1..Len(tasks) :
          (Len(tasks'[h].outcomes) > Len(tasks[h].outcomes) /\ LastSendFailed(tasks'[h]))
              => /\ scheduled' = scheduled
                 /\ tasks'[h].sent = tasks[h].sent
                 /\ tasks'[h].state = tasks[h].state
                 /\ \A g \in 1..Len(tasks) : g # h => tasks'[g] = tasks[g]
                 /\ getAllScheduledJobs' = getAllScheduledJobs]_vars

\* A send has failed while another job is armed and in the map.
C25_Witness ==
    \E g, h \in 1..Len(tasks) :
        /\ g # h
        /\ LastSendFailed(tasks[g])
        /\ Armed(h) /\ EntriesOf(h) # {} /\ tasks[h].outcomes = <<>>

(* C29: cancel does not abort a send in flight: cancelScheduledJob leaves the *)
(* count of sends in flight and the sends started of every timer and task as  *)
(* they are, and a send in flight can settle whether or not its job has been  *)
(* canceled.                                                                  *)
C29_CancelLeavesSendInFlight ==
    /\ \A id \in JobIds :
          LET out == cancelScheduledJob(id)
          IN  \A h \in 1..Len(tasks) :
                  /\ out.tasks[h].inflight = tasks[h].inflight
                  /\ out.tasks[h].sent = tasks[h].sent
    /\ \A h \in 1..Len(tasks) :
          tasks[h].inflight > 0 => (ENABLED SendResolves(h) /\ ENABLED SendRejects(h))

\* A recurring job was canceled while its send is in flight, and a once job
\* that was canceled after its timer fired has seen its send complete.
C29_Witness ==
    \/ \E h \in CronTasks : tasks[h].canceled /\ tasks[h].inflight > 0
                            /\ ENABLED SendResolves(h)
    \/ \E h \in OnceTimers : tasks[h].canceled /\ tasks[h].state = "fired"
                             /\ tasks[h].outcomes = <<"sent">>

\* Job g was live under its id when a later schedule call took the same id.
Overwritten(g) ==
    /\ tasks[g].stored
    /\ \E h \in 1..Len(tasks) : h > g /\ tasks[h].stored /\ tasks[h].id = tasks[g].id
    /\ EntriesOf(g) = {}

(* C30: a schedule call that obtains the id of a job that is in the map       *)
(* replaces that job's entry with its own and leaves the job's timer or task  *)
(* as it is; from then on the first job is in no entry of list(), no cancel   *)
(* stops it, and its timer still fires.                                       *)
C30_SameIdOverwrites ==
    /\ \A g \in 1..Len(tasks) :
          (IsLive(g) /\ EntriesOf(g) # {} /\ tasks[g].id = ToString(now)) =>
              \A out \in {scheduleOnce("1555000111", "hello", now + 1),
                          scheduleCron("1555000111", "hello", "* * * * *")} :
                  LET at == {i \in 1..Len(out.scheduled) : out.scheduled[i].id = tasks[g].id}
                  IN  /\ ~out.threw /\ out.value = tasks[g].id
                      /\ Cardinality(at) = 1
                      /\ \A i \in at : Handle(out.scheduled[i]) = Len(tasks) + 1
                      /\ out.tasks[g] = tasks[g]
    /\ \A g \in 1..Len(tasks) :
          (Overwritten(g) /\ Armed(g) /\ ~tasks[g].canceled) =>
              /\ \A id \in JobIds : cancelScheduledJob(id).tasks[g] = tasks[g]
              /\ (tasks[g].type = "once" /\ now >= tasks[g].due) => ENABLED TimeoutFires(g)

\* The first of two jobs with one id has fired and sent while the second is
\* the one the map lists under the id.
C30_Witness ==
    \E g, h \in 1..Len(tasks) :
        /\ g < h /\ tasks[g].id = tasks[h].id
        /\ Overwritten(g) /\ ~tasks[g].canceled
        /\ tasks[g].sent # <<>>
        /\ EntriesOf(h) # {}

(* C22: a once job whose timer is due within the run of the clock, and that   *)
(* is not canceled, eventually fires its send once, the send settles, and if  *)
(* it has succeeded the job's id is absent from list().                       *)
C22_OnceJobFiresAndLeaves ==
    \A h \in 1..MaxJobs :
        (/\ h <= Len(tasks) /\ tasks[h].type = "once" /\ tasks[h].stored
         /\ tasks[h].state = "pending" /\ tasks[h].due <= EndOfTime)
          ~> (/\ h <= Len(tasks)
              /\ \/ tasks[h].canceled
                 \/ /\ Len(tasks[h].sent) = 1 /\ tasks[h].inflight = 0
                    /\ tasks[h].outcomes = <<"sent">>
                          => tasks[h].id \notin Ids(getAllScheduledJobs))

\* A once job that was not canceled has fired, its send has succeeded and its
\* id is no longer listed.
C22_Witness ==
    \E h \in OnceTimers :
        /\ tasks[h].stored /\ ~tasks[h].canceled
        /\ tasks[h].state = "fired" /\ tasks[h].outcomes = <<"sent">>
        /\ tasks[h].id \notin Ids(getAllScheduledJobs)

(* C26: pending jobs do not survive a restart: the step that restarts the     *)
(* process leaves list() empty and every timer and task of the old process    *)
(* abandoned; an abandoned timer or task never sends again, and no entry of   *)
(* the map ever holds one.                                                    *)
C26_RestartLosesJobs ==
    [][/\ (\E h \in 1..Len(tasks) :
              tasks[h].state # "abandoned" /\ tasks'[h].state = "abandoned")
          => /\ getAllScheduledJobs' = <<>>
             /\ \A g \in 1..Len(tasks) : tasks'[g].state = "abandoned"
       /\ \A h \in 1..Len(tasks) :
             tasks[h].state = "abandoned" => tasks'[h] = tasks[h]
       /\ \A i \in 1..Len(scheduled') :
             tasks'[Handle(scheduled'[i])].state # "abandoned"]_vars

\* A once job that was pending at a restart is past its instant and has sent
\* nothing, while a job scheduled after the restart is armed and listed.
C26_Witness ==
    \E g, h \in 1..Len(tasks) :
        /\ tasks[g].state = "abandoned" /\ tasks[g].type = "once"
        /\ tasks[g].sent = <<>> /\ now >= tasks[g].due
        /\ Armed(h) /\ EntriesOf(h) # {}

(* C27: when a connection closes for a reason other than logged-out, the      *)
(* close handler starts one new initialization; when it closes because the   *)
(* session was logged out, it starts none.                                   *)
C27_ReconnectUnlessLoggedOut ==
    [][\A s \in 1..Len(sockets) :
          (sockets[s].connection # "close" /\ sockets'[s].connection = "close")
              => inits' = inits + (IF sockets'[s].lastDisconnect = "loggedOut" THEN 0 ELSE 1)]_vars

\* A socket was closed by a lost connection and replaced by a new one, which
\* was closed by a logout: no initialization is under way.
C27_Witness ==
    \E r, s \in 1..Len(sockets) :
        /\ r < s /\ sock = s
        /\ sockets[r].connection = "close" /\ sockets[r].lastDisconnect = "connectionLost"
        /\ sockets[s].connection = "close" /\ sockets[s].lastDisconnect = "loggedOut"
        /\ inits = 0

(* C28: the phone of every stored contact consists of digits only, one or    *)
(* more.                                                                     *)
C28_PhonesAreDigits ==
    \A i \in 1..Len(contacts) : DigitsOnly(contacts[i].phone)

\* Entry e is in map m as it is.
Kept(m, e) == \E j \in 1..Len(m) : m[j] = e

(* C31: operations on one id leave the other ids alone: a schedule call and a *)
(* cancel call keep every entry of another id and add none but under the id   *)
(* returned, and leave the other timers and tasks as they are; the callback   *)
(* of a job, when its send settles, keeps the entry of every other job.       *)
C31_OperationsTouchOnlyTheirId ==
    /\ \A to \in Recipients, text \in Bodies :
          \A out \in {scheduleOnce(to, text, T) : T \in Timestamps(now)}
                       \cup {scheduleCron(to, text, cron) : cron \in Patterns} :
              /\ \A i \in 1..Len(scheduled) :
                    scheduled[i].id # ToString(now) => Kept(out.scheduled, scheduled[i])
              /\ \A j \in 1..Len(out.scheduled) :
                    Kept(scheduled, out.scheduled[j]) \/ out.scheduled[j].id = out.value
              /\ \A g \in 1..Len(tasks) : out.tasks[g] = tasks[g]
    /\ \A id \in JobIds :
          LET out == cancelScheduledJob(id)
          IN  /\ \A i \in 1..Len(scheduled) :
                    scheduled[i].id # id
                        => /\ Kept(out.scheduled, scheduled[i])
                           /\ out.tasks[Handle(scheduled[i])] = tasks[Handle(scheduled[i])]
              /\ \A j \in 1..Len(out.scheduled) : Kept(scheduled, out.scheduled[j])
    /\ \A h \in 1..Len(tasks), ok \in BOOLEAN :
          tasks[h].inflight > 0 =>
              \A i \in 1..Len(scheduled) :
                  Handle(scheduled[i]) # h => Kept(AfterSend(tasks[h], ok), scheduled[i])

\* What list() reports under id: the summaries of the entries with that id.
Reported(list, id) == {list[i] : i \in {j \in 1..Len(list) : list[j].id = id}}

(* C32: an entry of the map is never updated in place: on every step, an id   *)
(* that list() reports before and after the step is reported with the same    *)
(* recipient, body, kind and schedule description.                            *)
C32_EntriesNeverUpdated ==
    [][\A id \in Ids(getAllScheduledJobs) \cap Ids(getAllScheduledJobs') :
          Reported(getAllScheduledJobs', id) = Reported(getAllScheduledJobs, id)]_vars

\* The timer of job h has run out, or the pattern of task h matches the minute
\* that begins and the task has not fired in it.
Due(h) ==
    \/ /\ tasks[h].type = "once" /\ tasks[h].state = "pending" /\ now >= tasks[h].due
    \/ /\ tasks[h].type = "cron" /\ tasks[h].state = "running"
       /\ now % TicksPerMinute = 0 /\ tasks[h].lastFire # now
       /\ Matches(tasks[h].cron, now \div TicksPerMinute)

\* The callback of job h runs up to its call of sendMessage.
Fire(h) == TimeoutFires(h) \/ CronFires(h)

(* C33: jobs that are due at the same instant fire independently: a job that  *)
(* is due can fire and start its send whatever the other jobs have done so    *)
(* far (not fired, send in flight, send succeeded, send failed), so of two    *)
(* jobs due together either may go first, and the fire starts one send.       *)
C33_SimultaneousFiresIndependent ==
    /\ \A g \in 1..Len(tasks) : Due(g) => ENABLED Fire(g)
    /\ \A g, h \in 1..Len(tasks) :
          (g # h /\ Due(g) /\ Due(h)) => (ENABLED Fire(g) /\ ENABLED Fire(h))
    /\ \A g \in 1..Len(tasks) :
          Due(g) =>
              LET t == IF tasks[g].type = "once" THEN TimerFired(tasks[g])
                                                   ELSE CronFired(tasks[g])
              IN  /\ t.inflight = tasks[g].inflight + 1
                  /\ t.sent = Append(tasks[g].sent, SendArgs(tasks[g]))

\* Of two once jobs due at the same instant the one created later has fired
\* first and its send has failed; the other is still due and can fire.
C33_Witness ==
    \E g, h \in OnceTimers :
        /\ g < h /\ tasks[g].due = tasks[h].due
        /\ tasks[h].state = "fired" /\ LastSendFailed(tasks[h])
        /\ Due(g) /\ ENABLED Fire(g)

(* C34: a schedule call returns once the timer or task is registered: upon    *)
(* return the new job is armed, has not fired and has started no send, no     *)
(* other job has started a send during the call, and the id returned is the   *)
(* clock reading of the call; a call that throws has started no send either.  *)
C34_ScheduleReturnsWithoutSending ==
    \A to \in Recipients, text \in Bodies :
        \A out \in {scheduleOnce(to, text, T) : T \in Timestamps(now)}
                     \cup {scheduleCron(to, text, cron) : cron \in Patterns} :
            /\ \A g \in 1..Len(tasks) : out.tasks[g] = tasks[g]
            /\ \A h \in (Len(tasks) + 1)..Len(out.tasks) :
                  /\ out.tasks[h].sent = <<>> /\ out.tasks[h].inflight = 0
                  /\ out.tasks[h].outcomes = <<>>
            /\ ~out.threw =>
                  /\ out.value = ToString(now)
                  /\ Len(out.tasks) = Len(tasks) + 1
                  /\ out.tasks[Len(out.tasks)].state \in {"pending", "running"}
                  /\ out.tasks[Len(out.tasks)].type = "once"
                        => out.tasks[Len(out.tasks)].due > now

\* A schedule call has returned at this clock reading: its job is armed and in
\* the map and has sent nothing, while an earlier job has a send in flight.
C34_Witness ==
    \E g, h \in 1..Len(tasks) :
        /\ tasks[h].id = ToString(now) /\ Armed(h) /\ EntriesOf(h) # {}
        /\ tasks[h].sent = <<>>
        /\ tasks[g].inflight > 0

\* The answers of getConnectionStatus().
Statuses == {"not initialized", "connected", "connecting", "disconnected"}

\* The schedule requests that reach the running build, through either entry
\* point, while getConnectionStatus() answers one of `statuses`.
RequestsWhile(statuses) ==
    IF build = "express"
    THEN ScheduleRequests({"POST /api/schedule"}, {Undefined}, statuses)
    ELSE ScheduleRequests({"POST /api/schedule", "action"}, Modes, statuses)

(* C35: a schedule request is accepted only while the connection status is    *)
(* "connected": through the page action and through the REST route alike, a   *)
(* request made while the status is anything else is rejected and creates no  *)
(* job.                                                                       *)
C35_ScheduleOnlyWhileConnected ==
    \A req \in RequestsWhile(Statuses \ {"connected"}) :
        LET res == Handler(req)
        IN  Rejected(res) /\ res.scheduled = scheduled /\ res.tasks = tasks

\* The sockets that are connecting or open.
ActiveSockets == {s \in 1..Len(sockets) : sockets[s].connection # "close"}

(* C36: at any time at most one socket is being initialized or is active:     *)
(* the initializations under way and the sockets that are not closed are      *)
(* together never more than one.                                              *)
C36_AtMostOneSocket ==
    inits + Cardinality(ActiveSockets) <= 1

(* C37: the fires of one recurring job are neither serialized nor skipped:    *)
(* when the pattern of a running task matches while sends of its earlier      *)
(* fires are in flight, the task fires all the same and starts a further      *)
(* send, so that several sends of one job are in flight together.             *)
C37_CronFiresOverlap ==
    \A h \in CronTasks :
        (/\ tasks[h].inflight > 0 /\ tasks[h].state = "running"
         /\ now % TicksPerMinute = 0 /\ tasks[h].lastFire # now
         /\ Matches(tasks[h].cron, now \div TicksPerMinute))
            => /\ ENABLED CronFires(h)
               /\ CronFired(tasks[h]).inflight = tasks[h].inflight + 1
               /\ Len(CronFired(tasks[h]).sent) = Len(tasks[h].sent) + 1

\* A recurring job has fired twice and both sends are in flight.
C37_Witness ==
    \E h \in CronTasks :
        tasks[h].inflight = 2 /\ Len(tasks[h].sent) = 2 /\ tasks[h].outcomes = <<>>

====
